---- MODULE Spec2Model ----
(***************************************************************************)
(* A model of the HTTP/1.x server of src/src/index.ts: the growable        *)
(* receive buffer (DynBuf), the promise-based socket wrapper (TCPConn),    *)
(* the header parser, the body readers, the response writer and the        *)
(* per-connection loop (serverClient / newConn).                           *)
(*                                                                         *)
(* A byte is a one-character string; a Buffer is a sequence of bytes.      *)
(* Indices of the source are 0-based, TLA+ sequences are 1-based: every    *)
(* operator below takes and returns the source's 0-based offsets.          *)
(*                                                                         *)
(* Specifications:                                                         *)
(*   Spec      - one connection: newConn / serverClient over a stream of   *)
(*               one or two requests, in any segmentation, with the end of *)
(*               the stream at any point;                                  *)
(*   SpecBuf   - bufPush and bufPop against a reference sequence;          *)
(*   SpecCut   - cutMessage on a buffer filled by bufPush;                 *)
(*   SpecChunk - writeHTTPResp's chunked encoding read back by readChunks; *)
(*   SpecLen   - readerFromConnLength read to its end;                     *)
(*   SpecSel   - readerFromReq on one request;                             *)
(*   SpecIO    - one connection with the /files/ handler, the 'error'      *)
(*               event of the socket and failing writes.                   *)
(* fp.read() and fp.close() are taken not to fail.                         *)
(***************************************************************************)
EXTENDS Integers, Sequences, FiniteSets, TLC

VARIABLES
    buf,      \* DynBuf of the connection: [data, length]
    ref,      \* history: the reference sequence of the unread bytes
    conn,     \* TCPConn: [err, ended, reader, paused, destroyed]
    wire,     \* bytes the peer has still to send
    rd,       \* the value a pending read was resolved with
    pc,       \* where serverClient (or newConn) is suspended
    ctx,      \* who called the body reader / whose response is written
    msg,      \* the HTTPReq in hand
    reqBody,  \* the BodyReader of the request
    res,      \* the HTTPRes being written
    out,      \* the buffers handed to socket.write, in order
    thrown,   \* the failure that ended serverClient
    files,    \* the file handles opened: how many times each was closed
    hist      \* history of the run (for the properties only)

vars == <<buf, ref, conn, wire, rd, pc, ctx, msg, reqBody, res, out, thrown, files, hist>>

----------------------------------------------------------------------------
(* Bytes and Node's Buffer primitives *)

CR == "\r"
LF == "\n"
SP == " "
\* the zero byte Buffer.alloc fills with
NUL == "NUL"
CRLF == <<CR, LF>>

Min(a, b) == IF a < b THEN a ELSE b
Max(a, b) == IF a > b THEN a ELSE b

\* ECMAScript's relative index: negative counts from the end, clamped
RelIndex(i, len) == IF i < 0 THEN Max(len + i, 0) ELSE Min(i, len)

\* Buffer.alloc(n)
Alloc(n) == [i \in 1..n |-> NUL]

\* b.subarray(start, end)
Subarray(b, start, end) ==
    LET s == RelIndex(start, Len(b))
        e == RelIndex(end, Len(b))
    IN  IF e <= s THEN <<>> ELSE [i \in 1..(e - s) |-> b[s + i]]

\* b.copyWithin(target, start, end): the changed b
CopyWithin(b, target, start, end) ==
    LET to    == RelIndex(target, Len(b))
        from  == RelIndex(start, Len(b))
        final == RelIndex(end, Len(b))
        count == Min(final - from, Len(b) - to)
    IN  IF count <= 0 THEN b
        ELSE [i \in 1..Len(b) |->
                IF i > to /\ i <= to + count THEN b[from + (i - to)] ELSE b[i]]

\* src.copy(target, targetStart, 0) throws a RangeError for targetStart < 0
CopyThrows(targetStart) == targetStart < 0

\* src.copy(target, targetStart, 0): the changed target (targetStart >= 0)
Copy(src, target, targetStart) ==
    LET n == Min(Len(src), Len(target) - targetStart)
    IN  IF n <= 0 THEN target
        ELSE [i \in 1..Len(target) |->
                IF i > targetStart /\ i <= targetStart + n
                THEN src[i - targetStart] ELSE target[i]]

\* the least element of a non-empty set of integers
Least(S) == CHOOSE i \in S : \A k \in S : i <= k
Greatest(S) == CHOOSE i \in S : \A k \in S : i >= k
LeastOr(S, none) == IF S = {} THEN none ELSE Least(S)

\* b.indexOf(needle): the 0-based offset of the first occurrence, or -1
IndexOf(b, needle) ==
    LeastOr({i \in 0..(Len(b) - Len(needle)) :
                \A j \in 1..Len(needle) : b[i + j] = needle[j]}, -1)

----------------------------------------------------------------------------
(* DynBuf *)

\* const buf: DynBuf = { data: Buffer.alloc(0), length: 0 }
EmptyBuf == [data |-> <<>>, length |-> 0]

\* the capacity bufPush grows to: max(old, 32) doubled until newLen fits
RECURSIVE GrowCap(_, _)
GrowCap(cap, newLen) == IF cap < newLen THEN GrowCap(cap * 2, newLen) ELSE cap

\* bufPush fails (RangeError of data.copy) when buf.length is negative
bufPushThrows(b) == CopyThrows(b.length)

bufPush(b, data) ==
    LET newLen == b.length + Len(data)
        grown  == IF Len(b.data) < newLen
                  THEN Copy(b.data, Alloc(GrowCap(Max(Len(b.data), 32), newLen)), 0)
                  ELSE b.data
    IN  [data |-> Copy(data, grown, b.length), length |-> newLen]

\* bufPop without the move of the remaining bytes to the front
bufPopNoMove(b, len) == [data |-> b.data, length |-> b.length - len]

bufPop(b, len) ==
    [data |-> CopyWithin(b.data, 0, len, b.length), length |-> b.length - len]

\* buf.data.subarray(0, buf.length): the unread bytes as the code sees them
Unread(b) == Subarray(b.data, 0, b.length)

----------------------------------------------------------------------------
(* Strings of the source, as bytes *)

kContentLength == <<"C", "o", "n", "t", "e", "n", "t", "-", "L", "e", "n", "g", "t", "h">>
kTransferEncoding == <<"T", "r", "a", "n", "s", "f", "e", "r", "-", "E", "n", "c", "o", "d", "i", "n", "g">>
kChunked == <<"c", "h", "u", "n", "k", "e", "d">>
sEcho == <<"/", "e", "c", "h", "o">>
sGET == <<"G", "E", "T">>
sHEAD == <<"H", "E", "A", "D">>
sV10 == <<"1", ".", "0">>
mTooLarge == <<"h", "e", "a", "d", "e", "r", SP, "i", "s", SP, "t", "o", "o", SP, "l", "a", "r", "g", "e">>
mEmpty == <<"e", "m", "p", "t", "y", SP, "r", "e", "q", "u", "e", "s", "t", ".">>
mBadLine == <<"I", "n", "v", "a", "l", "i", "d", SP, "r", "e", "q", "u", "e", "s", "t", SP, "l", "i", "n", "e", ".">>
mBadField == <<"b", "a", "d", SP, "f", "i", "e", "l", "d", ".">>
mBadLen == <<"I", "n", "v", "a", "l", "i", "d", SP, "C", "o", "n", "t", "e", "n", "t", "-", "L", "e", "n", "g", "t", "h", ".">>
mNoBody == <<"B", "o", "d", "y", SP, "n", "o", "t", SP, "a", "l", "l", "o", "w", "e", "d", SP, "f", "o", "r", SP, "t", "h", "i", "s", SP, "m", "e", "t", "h", "o", "d", ".">>
mNoLen == <<"M", "i", "s", "s", "i", "n", "g", SP, "C", "o", "n", "t", "e", "n", "t", "-", "L", "e", "n", "g", "t", "h", SP, "o", "r", SP, "T", "r", "a", "n", "s", "f", "e", "r", "-", "E", "n", "c", "o", "d", "i", "n", "g", ".">>
mEOF == <<"U", "n", "e", "x", "p", "e", "c", "t", "e", "d", SP, "E", "O", "F", ".">>

UpperCase == <<"A", "B", "C", "D", "E", "F", "G", "H", "I", "J", "K", "L", "M",
               "N", "O", "P", "Q", "R", "S", "T", "U", "V", "W", "X", "Y", "Z">>
LowerCase == <<"a", "b", "c", "d", "e", "f", "g", "h", "i", "j", "k", "l", "m",
               "n", "o", "p", "q", "r", "s", "t", "u", "v", "w", "x", "y", "z">>
Digits == <<"0", "1", "2", "3", "4", "5", "6", "7", "8", "9">>

\* String.prototype.toLocaleLowerCase, byte by byte
LowerByte(c) ==
    IF \E i \in 1..26 : UpperCase[i] = c
    THEN LowerCase[CHOOSE i \in 1..26 : UpperCase[i] = c] ELSE c
ToLower(s) == [i \in 1..Len(s) |-> LowerByte(s[i])]

\* the value of a digit in the radix, or -1
DigitVal(c, radix) ==
    LET d == IF \E i \in 1..10 : Digits[i] = c
             THEN (CHOOSE i \in 1..10 : Digits[i] = c) - 1
             ELSE IF \E i \in 1..6 : LowerCase[i] = LowerByte(c)
             THEN (CHOOSE i \in 1..6 : LowerCase[i] = LowerByte(c)) + 9
             ELSE -1
    IN  IF d < radix THEN d ELSE -1

IsSpace(c) == c \in {SP, CR, LF, "\t"}

\* String.prototype.trim
TrimTo(s, keep) == IF keep = {} THEN <<>> ELSE SubSeq(s, Least(keep), Greatest(keep))
Trim(s) == TrimTo(s, {i \in 1..Len(s) : ~IsSpace(s[i])})

\* the value of the digits s[1..n], most significant first
RECURSIVE DigitsValue(_, _, _)
DigitsValue(s, n, radix) ==
    IF n = 0 THEN 0
    ELSE DigitsValue(s, n - 1, radix) * radix + DigitVal(s[n], radix)

NaN == [nan |-> TRUE, val |-> 0]
Num(v) == [nan |-> FALSE, val |-> v]

\* parseInt(s, radix), radix 0 standing for "no radix given": leading white
\* space, a sign, a 0x prefix (radix 16 or none), then the longest run of
\* digits; NaN when there is no digit
ParseDigits(t, n, radix, neg) ==
    IF n = 0 THEN NaN
    ELSE IF neg THEN Num(0 - DigitsValue(t, n, radix))
    ELSE Num(DigitsValue(t, n, radix))
ParseRun(t, radix, neg) ==
    ParseDigits(t, LeastOr({i \in 1..Len(t) : DigitVal(t[i], radix) < 0}, Len(t) + 1) - 1,
                radix, neg)
ParseUnsigned(t, radix, neg) ==
    IF radix \in {0, 16} /\ Len(t) >= 2 /\ t[1] = "0" /\ t[2] \in {"x", "X"}
    THEN ParseRun(SubSeq(t, 3, Len(t)), 16, neg)
    ELSE ParseRun(t, IF radix = 16 THEN 16 ELSE 10, neg)
ParseSigned(t, radix) ==
    IF Len(t) > 0 /\ t[1] \in {"-", "+"}
    THEN ParseUnsigned(Tail(t), radix, t[1] = "-")
    ELSE ParseUnsigned(t, radix, FALSE)
ParseInt(s, radix) ==
    ParseSigned(SubSeq(s, LeastOr({i \in 1..Len(s) : ~IsSpace(s[i])}, Len(s) + 1), Len(s)),
                radix)

\* the k-th smallest element of a set of integers
Nth(S, k) == CHOOSE i \in S : Cardinality({j \in S : j < i}) = k - 1

\* String.prototype.split(sep) for a one-byte separator: at holds the
\* positions of the separator
SplitAt(s, at) ==
    [k \in 1..(Cardinality(at) + 1) |->
        SubSeq(s, IF k = 1 THEN 1 ELSE Nth(at, k - 1) + 1,
                  IF k = Cardinality(at) + 1 THEN Len(s) ELSE Nth(at, k) - 1)]
Split(s, sep) == SplitAt(s, {i \in 1..Len(s) : s[i] = sep})

----------------------------------------------------------------------------
(* HTTPError and the header parser *)

HTTPError(code, message) == [http |-> TRUE, code |-> code, message |-> message]
\* a failure without a status code: new Error(...), a RangeError
PlainError(what) == [http |-> FALSE, code |-> 0, message |-> what]
NoError == [http |-> FALSE, code |-> 0, message |-> "none"]

Ok(v) == [tag |-> "ok", val |-> v]
Throw(e) == [tag |-> "throw", err |-> e]
Nothing == [tag |-> "null"]

\* the maximum length of an HTTP header
kMaxHeaderLen == 1024 * 8

\* the lines of data, the CRLFs being at the offsets in at
LinesAt(data, at, start) ==
    IF start < Len(data)
    THEN [k \in 1..(Cardinality(at) + 1) |->
            Subarray(data, IF k = 1 THEN 0 ELSE Nth(at, k - 1) + 2,
                           IF k = Cardinality(at) + 1 THEN Len(data) ELSE Nth(at, k))]
    ELSE [k \in 1..Cardinality(at) |->
            Subarray(data, IF k = 1 THEN 0 ELSE Nth(at, k - 1) + 2, Nth(at, k))]

splitLines(data) ==
    LET at == {i \in 0..(Len(data) - 2) : data[i + 1] = CR /\ data[i + 2] = LF}
    IN  LinesAt(data, at, IF at = {} THEN 0 ELSE Greatest(at) + 2)

RequestLineOf(parts) ==
    IF Len(parts) # 3 \/ parts[1] = <<>> \/ parts[2] = <<>> \/ parts[3] = <<>>
    THEN Throw(HTTPError(400, mBadLine))
    ELSE Ok(<<parts[1], parts[2], parts[3]>>)

parseRequestLine(line) == RequestLineOf(Split(line, SP))

validateHeader(header) == IndexOf(header, <<":">>) > 0

\* parseHTTPReq from the request line parsed and the non-empty lines after it
RequestOf(lines, first, fields) ==
    IF first.tag = "throw" THEN first
    ELSE IF \E i \in fields : ~validateHeader(lines[i])
    THEN Throw(HTTPError(400, mBadField))
    ELSE Ok([method  |-> first.val[1],
             uri     |-> first.val[2],
             version |-> first.val[3],
             headers |-> [k \in 1..Cardinality(fields) |-> lines[Nth(fields, k)]]])

ParseLines(lines) ==
    IF Len(lines) = 0 THEN Throw(HTTPError(400, mEmpty))
    ELSE RequestOf(lines, parseRequestLine(lines[1]),
                   {i \in 2..Len(lines) : Len(lines[i]) > 0})

parseHTTPReq(data) == ParseLines(splitLines(data))

\* cutMessage removing the header without the empty line that ends it
CutParsedShort(b, idx, m) ==
    IF m.tag = "throw" THEN m
    ELSE [tag |-> "ok", val |-> m.val, buf |-> bufPop(b, idx + 2)]

\* cutMessage once the header is parsed: remove it from the buffer
CutParsed(b, idx, m) ==
    IF m.tag = "throw" THEN m
    ELSE [tag |-> "ok", val |-> m.val, buf |-> bufPop(b, idx + 4)]

\* cutMessage with the cap one byte late
CutAtLate(b, idx) ==
    IF idx < 0
    THEN IF b.length > kMaxHeaderLen
         THEN Throw(HTTPError(413, mTooLarge))
         ELSE Nothing
    ELSE CutParsed(b, idx, parseHTTPReq(Subarray(b.data, 0, idx + 4)))

\* cutMessage from the offset of the first CRLF CRLF
CutAt(b, idx) ==
    IF idx < 0
    THEN IF b.length >= kMaxHeaderLen
         THEN Throw(HTTPError(413, mTooLarge))
         ELSE Nothing
    ELSE CutParsed(b, idx, parseHTTPReq(Subarray(b.data, 0, idx + 4)))

\* parse & remove a header from the beginning of the buffer if possible:
\* Nothing, a thrown HTTPError, or the request with the buffer after bufPop
cutMessage(b) == CutAt(b, IndexOf(Unread(b), <<CR, LF, CR, LF>>))

FieldName(h, idx) == IF idx > 0 THEN ToLower(Subarray(h, 0, idx)) ELSE <<>>

FieldValue(headers, key, hit) ==
    IF hit = {} THEN Nothing
    ELSE Ok(Trim(Subarray(headers[Least(hit)], Len(key) + 1, Len(headers[Least(hit)]))))

fieldGet(headers, key) ==
    FieldValue(headers, key,
        {i \in 1..Len(headers) :
            /\ IndexOf(headers[i], <<":">>) > 0
            /\ FieldName(headers[i], IndexOf(headers[i], <<":">>)) = ToLower(key)})

----------------------------------------------------------------------------
(* Body readers *)

\* readerFromConnLength(conn, buf, remain)
readerFromConnLength(n) == [kind |-> "len", length |-> n, remain |-> n]

\* readerFromMemory(data)
readerFromMemory(data) ==
    [kind |-> "mem", length |-> Len(data), data |-> data, done |-> FALSE]

\* readerFromGenerator(gen): gen is the state of a suspended generator
readerFromGenerator(gen) == [kind |-> "gen", length |-> -1, gen |-> gen]

\* readChunks(conn, buf), not yet started
readChunksStart == [fn |-> "readChunks", at |-> "top", remain |-> 0, last |-> FALSE]

\* a generator that yields the given chunks in order and returns
Producer(items) == [fn |-> "list", at |-> "top", items |-> items]

\* readerFromStaticFile(fp, size): fp is the place of the handle in files
readerFromStaticFile(fp, size) == [kind |-> "file", length |-> size, got |-> 0, fp |-> fp]

NoReader == [kind |-> "none", length |-> 0]

\* What a call of read() comes to, up to its first real suspension:
\*   data  - it returned the chunk `data`
\*   await - it issued soRead and waits
\*   throw - it failed
\*   spin  - it loops for ever without suspending
\*   fs    - it issued fp.read() and waits
Yield(data, r, b)  == [tag |-> "data", data |-> data, reader |-> r, buf |-> b]
Await(r, b)        == [tag |-> "await", reader |-> r, buf |-> b]
Spin(r, b)         == [tag |-> "spin", reader |-> r, buf |-> b]
AwaitFile(r, b)    == [tag |-> "fs", reader |-> r, buf |-> b]

\* readerFromConnLength.read, after the buffer is known to hold data
LenTake(r, b, consume) ==
    Yield(Subarray(b.data, 0, consume),
          [r EXCEPT !.remain = r.remain - consume],
          bufPop(b, consume))
\* the read that takes all the buffer holds, whatever is left to read
LenConsumeAll(r, b) == LenTake(r, b, b.length)

LenConsume(r, b) == LenTake(r, b, Min(b.length, r.remain))

\* readerFromConnLength.read
LenRead(r, b) ==
    IF r.remain = 0 THEN Yield(<<>>, r, b)
    ELSE IF b.length = 0 THEN Await(r, b)
    ELSE LenConsume(r, b)

\* readerFromConnLength.read, resumed by soRead's data
LenResume(r, b, data) ==
    IF bufPushThrows(b) THEN Throw(PlainError("RangeError"))
    ELSE IF Len(data) = 0 THEN Throw(PlainError("Unexpected EOF from HTTP body"))
    ELSE LenConsume(r, bufPush(b, data))

\* readChunks: from the top of the for loop (ChunkTop), from the chunk-size
\* line found at idx (ChunkLine), with the size parsed (ChunkSize) and from
\* the test of the inner while loop (ChunkData)
RECURSIVE ChunkTop(_, _), ChunkLine(_, _, _), ChunkSize(_, _, _, _), ChunkData(_, _)
ChunkTop(g, b) == ChunkLine(g, b, IndexOf(Unread(b), CRLF))

ChunkLine(g, b, idx) ==
    IF idx < 0 THEN Spin(readerFromGenerator(g), b)
    ELSE ChunkSize(g, b, idx, ParseInt(Subarray(b.data, 0, idx), 16))

ChunkSize(g, b, idx, remain) ==
    IF remain.nan THEN Throw(PlainError("Invalid chunk size"))
    ELSE ChunkData([g EXCEPT !.remain = remain.val, !.last = (remain.val = 0)],
                   bufPop(b, idx + 2))

ChunkTake(g, b, consume) ==
    Yield(Subarray(b.data, 0, consume),
          readerFromGenerator([g EXCEPT !.at = "yield", !.remain = g.remain - consume]),
          bufPop(b, consume))

ChunkData(g, b) ==
    IF g.remain > 0
    THEN IF b.length = 0
         THEN Await(readerFromGenerator([g EXCEPT !.at = "more"]), b)
         ELSE ChunkTake(g, b, Min(g.remain, b.length))
    ELSE \* the chunk data is followed by CRLF
         IF g.last
         THEN Yield(<<>>, readerFromGenerator([g EXCEPT !.at = "done"]), bufPop(b, 2))
         ELSE ChunkTop(g, bufPop(b, 2))

\* readChunks: gen.next() on the generator in state g
readChunks(g, b) ==
    CASE g.at = "top"   -> ChunkTop(g, b)
      [] g.at = "yield" -> ChunkData(g, b)
      [] g.at = "done"  -> Yield(<<>>, readerFromGenerator(g), b)

\* bufExpectMore inside readChunks, resumed by soRead's data
ChunkResume(g, b, data) ==
    IF bufPushThrows(b) THEN Throw(PlainError("RangeError"))
    ELSE IF Len(data) = 0
    THEN Throw(PlainError("Unexpected EOF while reading chunk data."))
    ELSE ChunkData(g, bufPush(b, data))

\* gen.next() of a producer of chunks
ProducerNext(g, b) ==
    IF g.items = <<>>
    THEN Yield(<<>>, readerFromGenerator([g EXCEPT !.at = "done"]), b)
    ELSE Yield(Head(g.items),
               readerFromGenerator([g EXCEPT !.at = "yield", !.items = Tail(g.items)]),
               b)

\* BodyReader.read() of any reader
ReaderRead(r, b) ==
    CASE r.kind = "len" -> LenRead(r, b)
      [] r.kind = "mem" ->
            IF r.done THEN Yield(<<>>, r, b)
            ELSE Yield(r.data, [r EXCEPT !.done = TRUE], b)
      [] r.kind = "gen" ->
            IF r.gen.fn = "readChunks" THEN readChunks(r.gen, b)
            ELSE ProducerNext(r.gen, b)
      [] r.kind = "file" -> AwaitFile(r, b)

\* the read() that waits for soRead, resumed with the chunk soRead returned
ReaderResume(r, b, data) ==
    IF r.kind = "len" THEN LenResume(r, b, data)
    ELSE ChunkResume(r.gen, b, data)

\* the n bytes fp.read() has read
FileBytes(n) == [i \in 1..n |-> "f"]

\* readerFromStaticFile.read, resumed by fp.read() with bytesRead = n
FileResume(r, b, n) ==
    IF r.got + n > r.length \/ (r.got + n < r.length /\ n = 0)
    THEN Throw(PlainError("file size changed, abandon it!"))
    ELSE Yield(FileBytes(n), [r EXCEPT !.got = r.got + n], b)

\* the reader has returned its end (an empty chunk is all it gives now)
AtEnd(r) ==
    CASE r.kind = "len" -> r.remain = 0
      [] r.kind = "mem" -> r.done
      [] r.kind = "gen" -> r.gen.at = "done"
      [] OTHER -> FALSE

\* a readerFromReq that looks at Transfer-Encoding before Content-Length
SelectReaderChunkedFirst(bodyLen, bodyAllowed, chunked) ==
    IF ~bodyAllowed /\ (bodyLen > 0 \/ chunked)
    THEN Throw(HTTPError(400, mNoBody))
    ELSE IF ~bodyAllowed THEN Ok(readerFromConnLength(0))
    ELSE IF chunked THEN Ok(readerFromGenerator(readChunksStart))
    ELSE IF bodyLen >= 0 THEN Ok(readerFromConnLength(bodyLen))
    ELSE Throw(HTTPError(400, mNoLen))

\* readerFromReq from the body length announced (-1: none) and the flags
SelectReader(bodyLen, bodyAllowed, chunked) ==
    IF ~bodyAllowed /\ (bodyLen > 0 \/ chunked)
    THEN Throw(HTTPError(400, mNoBody))
    ELSE IF ~bodyAllowed \/ bodyLen >= 0
    THEN Ok(readerFromConnLength(IF bodyAllowed THEN bodyLen ELSE 0))
    ELSE IF chunked THEN Ok(readerFromGenerator(readChunksStart))
    ELSE Throw(HTTPError(400, mNoLen))

\* readerFromReq from the Content-Length parsed (NaN when it is no number)
ReaderFor(req, bodyLen, te) ==
    IF bodyLen.nan THEN Throw(HTTPError(400, mBadLen))
    ELSE SelectReader(bodyLen.val,
                      ~(req.method = sGET \/ req.method = sHEAD),
                      te.tag = "ok" /\ te.val = kChunked)

\* readerFromReq from the two header fields
ReaderOf(req, contentLen, te) ==
    IF contentLen.tag = "ok"
    THEN ReaderFor(req, ParseInt(contentLen.val, 0), te)
    ELSE ReaderFor(req, Num(-1), te)

readerFromReq(req) ==
    ReaderOf(req, fieldGet(req.headers, kContentLength),
                  fieldGet(req.headers, kTransferEncoding))

----------------------------------------------------------------------------
(* The handler and the response writer *)

kHTTP11 == <<"H", "T", "T", "P", "/", "1", ".", "1", SP>>
kServerHeader == <<"S", "e", "r", "v", "e", "r", ":", SP, "m", "y", "_", "f", "i", "r", "s", "t", "_", "h", "t", "t", "p", "_", "s", "e", "r", "v", "e", "r">>
kContentLengthField == <<"C", "o", "n", "t", "e", "n", "t", "-", "L", "e", "n", "g", "t", "h", ":", SP>>
kChunkedField == <<"T", "r", "a", "n", "s", "f", "e", "r", "-", "E", "n", "c", "o", "d", "i", "n", "g", ":", SP, "c", "h", "u", "n", "k", "e", "d">>
kContentType == <<"C", "o", "n", "t", "e", "n", "t", "-", "T", "y", "p", "e", ":", SP, "t", "e", "x", "t", "/", "p", "l", "a", "i", "n">>
sFiles == <<"/", "f", "i", "l", "e", "s", "/">>
mNotFound == <<"N", "o", "t", SP, "F", "o", "u", "n", "d">>
mNotAFile == <<"N", "o", "t", SP, "a", SP, "f", "i", "l", "e">>
kHello == <<"h", "e", "l", "l", "o", SP, "w", "o", "r", "l", "d", ".", LF>>
tOK == <<"O", "K">>
tBadRequest == <<"B", "a", "d", SP, "R", "e", "q", "u", "e", "s", "t">>
tNotFound == <<"N", "o", "t", SP, "F", "o", "u", "n", "d">>
tTooLarge == <<"P", "a", "y", "l", "o", "a", "d", SP, "T", "o", "o", SP, "L", "a", "r", "g", "e">>
tInternal == <<"I", "n", "t", "e", "r", "n", "a", "l", SP, "S", "e", "r", "v", "e", "r", SP, "E", "r", "r", "o", "r">>
tUnknown == <<"U", "n", "k", "n", "o", "w", "n">>

\* Number.prototype.toString(radix) of n >= 0
RECURSIVE NumToString(_, _)
NumToString(n, radix) ==
    LET d == n % radix
        c == IF d < 10 THEN Digits[d + 1] ELSE LowerCase[d - 9]
    IN  IF n < radix THEN <<c>> ELSE Append(NumToString(n \div radix, radix), c)

\* the concatenation of a sequence of buffers
RECURSIVE Concat(_)
Concat(bs) == IF bs = <<>> THEN <<>> ELSE Head(bs) \o Concat(Tail(bs))

\* the HTTPRes of handleReq; echo says that its body is the request's reader
\* itself (resp = body), not a reader of its own
HTTPRes(code, headers, body, echo) ==
    [code |-> code, headers |-> headers, body |-> body, echo |-> echo]
NoRes == HTTPRes(0, <<>>, NoReader, FALSE)

\* respError(code, message)
respError(code, message) ==
    HTTPRes(code, <<kContentType>>,
            readerFromMemory(NumToString(code, 10) \o <<SP>> \o message \o <<LF>>), FALSE)

\* handleReq's first test: uri.startsWith("/files/")
IsFileTarget(req) ==
    Len(req.uri) >= Len(sFiles) /\ SubSeq(req.uri, 1, Len(sFiles)) = sFiles

\* handleReq without the "/echo" case
handleReqNoEcho(req, body) == HTTPRes(200, <<kServerHeader>>, readerFromMemory(kHello), FALSE)

\* handleReq for the targets outside /files/: "/sheep" falls through to the
\* default response
handleReq(req, body) ==
    IF req.uri = sEcho
    THEN HTTPRes(200, <<kServerHeader>>, NoReader, TRUE)
    ELSE HTTPRes(200, <<kServerHeader>>, readerFromMemory(kHello), FALSE)

getStatusText(code) ==
    CASE code = 200 -> tOK
      [] code = 400 -> tBadRequest
      [] code = 404 -> tNotFound
      [] code = 413 -> tTooLarge
      [] code = 500 -> tInternal
      [] OTHER -> tUnknown

encodeHTTPResp(resp) ==
    kHTTP11 \o NumToString(resp.code, 10) \o <<SP>> \o getStatusText(resp.code) \o CRLF
    \o Concat([i \in 1..Len(resp.headers) |-> resp.headers[i] \o CRLF])
    \o CRLF

\* the framing field with a Content-Length one too large
FramingFieldOff(length) ==
    IF length < 0 THEN kChunkedField
    ELSE kContentLengthField \o NumToString(length + 1, 10)

\* writeHTTPResp's framing field for a body of the declared length
FramingField(length) ==
    IF length < 0 THEN kChunkedField
    ELSE kContentLengthField \o NumToString(length, 10)

\* a writer that wraps the chunks that hold data only
WrapChunkData(length, data) ==
    IF length < 0 /\ Len(data) > 0
    THEN NumToString(Len(data), 16) \o CRLF \o data \o CRLF
    ELSE data

\* writeHTTPResp's body chunk as written: wrapped when the encoding is chunked
WrapChunk(length, data) ==
    IF length < 0
    THEN NumToString(Len(data), 16) \o CRLF \o data \o CRLF
    ELSE data

----------------------------------------------------------------------------
(* The connection's coroutine: newConn, serverClient and writeHTTPResp, as  *)
(* functions from its state to its state at the next suspension.           *)
(* m is the record of the variables it owns.                               *)

NoMsg == [method |-> <<>>, uri |-> <<>>, version |-> <<>>, headers |-> <<>>]
\* ctx.pending is the failure writeHTTPResp threw, kept while the body is
\* closed; ctx.fp is serveStaticFile's fp, 0 for null
NoCtx == [who |-> "none", caller |-> "none", last |-> FALSE, pending |-> NoError, fp |-> 0]

\* the reader body.read() is called on: the request's for an echo
RespBody(m) == IF m.res.echo THEN m.reqBody ELSE m.res.body

\* conn.reader = { resolve, reject }; conn.socket.resume()
soRead(m, at) ==
    [m EXCEPT !.conn.reader = TRUE, !.conn.paused = FALSE, !.pc = at]

\* newConn's finally: socket.destroy()
Destroy(m) == [m EXCEPT !.conn.destroyed = TRUE, !.pc = "closed"]

RECURSIVE newConnCatch(_, _)

\* serverClient without the test of the version
respDoneAnyVersion(m) ==
    IF m.ctx.who = "error" THEN Destroy(m)
    ELSE [m EXCEPT !.hist.respDone = @ + 1, !.pc = "drain", !.ctx.caller = "drain"]

\* serverClient after its try block: the response is written and released
respDone(m) ==
    IF m.ctx.who = "error" THEN Destroy(m)
    ELSE IF m.msg.version = sV10 THEN Destroy([m EXCEPT !.hist.respDone = @ + 1])
    ELSE [m EXCEPT !.hist.respDone = @ + 1, !.pc = "drain", !.ctx.caller = "drain"]

\* serverClient's finally block is over: a failure e of writeHTTPResp goes on
\* to newConn
afterRelease(m, e) == IF e = NoError THEN respDone(m) ELSE newConnCatch(m, e)

\* serverClient's finally: `await res.body.close?.()`; only the reader of a
\* file has a close
release(m, e) ==
    IF RespBody(m).kind = "file" THEN [m EXCEPT !.pc = "close", !.ctx.pending = e]
    ELSE afterRelease(m, e)

\* writeHTTPResp is over, with the failure e or with none: newConn ignores
\* what the write of an error response throws
respEnds(m, e) == IF m.ctx.who = "error" THEN Destroy(m) ELSE release(m, e)

\* writeHTTPResp has returned
respReturned(m) == respEnds([m EXCEPT !.hist.sent = @ + 1], NoError)

\* writeHTTPResp has thrown e
respThrew(m, e) == respEnds(m, e)

\* soWrite: the promise is rejected at once when conn.err is set; otherwise
\* conn.socket.write(data, callback)
soWrite(m, data, at) ==
    IF m.conn.err THEN respThrew(m, PlainError("socket"))
    ELSE [m EXCEPT !.out = Append(m.out, data), !.pc = at]

\* writeHTTPResp: the header written, r being resp with its framing field
WriteHeader(m, r, who) ==
    soWrite([m EXCEPT !.res = r, !.ctx = [NoCtx EXCEPT !.who = who, !.caller = "resp"]],
            encodeHTTPResp(r), "hdrWrite")

\* writeHTTPResp up to the write of the header
writeHTTPResp(m, resp, who) ==
    WriteHeader(m,
        [resp EXCEPT !.headers = Append(resp.headers,
            FramingField(IF resp.echo THEN m.reqBody.length ELSE resp.body.length))],
        who)

\* newConn without the response to an HTTPError
newConnCatchSilent(m, e) == Destroy([m EXCEPT !.thrown = e])

\* newConn with an error response for every failure
newConnCatchAlways(m, e) ==
    IF m.ctx.who = "error" THEN Destroy(m)
    ELSE writeHTTPResp([m EXCEPT !.thrown = e],
             HTTPRes(IF e.http THEN e.code ELSE 500, <<>>,
                     readerFromMemory(<<"e", "r", "r", "o", "r", LF>>), FALSE),
             "error")

\* newConn's catch: a failure left serverClient (or the error response's write)
newConnCatch(m, e) ==
    IF m.ctx.who = "error" THEN Destroy(m)
    ELSE IF e.http
    THEN writeHTTPResp([m EXCEPT !.thrown = e],
             HTTPRes(e.code, <<>>, readerFromMemory(e.message \o <<LF>>), FALSE),
             "error")
    ELSE Destroy([m EXCEPT !.thrown = e])

\* writeHTTPResp's loop body, from the chunk as it is to be written
WriteWrapped(m, w) ==
    IF Len(w) > 0 THEN soWrite(m, w, "bodyWrite")
    ELSE IF m.ctx.last THEN respReturned(m)
    ELSE [m EXCEPT !.pc = "bodyLoop"]

\* writeHTTPResp's loop body, from the chunk body.read() returned
writeChunk(m, data) ==
    WriteWrapped([m EXCEPT !.ctx.last = (Len(data) = 0)],
                 WrapChunk(RespBody(m).length, data))

\* the reader the caller reads is put back after a read
SetReader(m, r, b) ==
    IF m.ctx.caller = "resp" /\ ~m.res.echo
    THEN [m EXCEPT !.res.body = r, !.buf = b]
    ELSE [m EXCEPT !.reqBody = r, !.buf = b]

TheReader(m) == IF m.ctx.caller = "resp" THEN RespBody(m) ELSE m.reqBody

\* a read() returned data to the loop that called it
Returned(m, data) ==
    IF m.ctx.caller = "resp" THEN writeChunk(m, data)
    ELSE IF Len(data) > 0 THEN [m EXCEPT !.pc = "drain", !.hist.got = Append(@, data)]
    ELSE [m EXCEPT !.pc = "loop", !.hist.drained = @ + 1]

\* the outcome o of a read() goes to the loop that called it
deliver(m, o) ==
    CASE o.tag = "throw" ->
            IF m.ctx.caller = "resp" THEN respThrew(m, o.err) ELSE newConnCatch(m, o.err)
      [] o.tag = "spin"  -> [SetReader(m, o.reader, o.buf) EXCEPT !.pc = "spin"]
      [] o.tag = "fs"    -> [SetReader(m, o.reader, o.buf) EXCEPT !.pc = "fileRead"]
      [] o.tag = "await" -> soRead(SetReader(m, o.reader, o.buf), "bodyRead")
      [] o.tag = "data"  -> Returned(SetReader(m, o.reader, o.buf), o.data)

\* serverClient from the request's reader to the write of the response
\* header, or to serveStaticFile's `await fs.open(path, "r")`
Respond(m, req, body) ==
    IF body.tag = "throw" THEN newConnCatch([m EXCEPT !.msg = req], body.err)
    ELSE IF IsFileTarget(req)
    THEN [m EXCEPT !.msg = req, !.reqBody = body.val, !.ctx = NoCtx, !.pc = "open"]
    ELSE writeHTTPResp([m EXCEPT !.msg = req, !.reqBody = body.val],
                       handleReq(req, body.val), "serve")

\* serveStaticFile returns resp: its finally closes fp unless it is null, and
\* serverClient writes the response
serveReturn(m, resp) ==
    IF m.ctx.fp = 0 THEN writeHTTPResp(m, resp, "serve")
    ELSE [m EXCEPT !.res = resp, !.pc = "fpClose"]

\* a serveStaticFile that leaves fp set when it returns the reader
serveFileKeepsFp(m, size) ==
    serveReturn(m, HTTPRes(200, <<>>, readerFromStaticFile(m.ctx.fp, size), FALSE))

\* serveStaticFile for a regular file: the reader takes the handle, fp = null
serveFile(m, size) ==
    serveReturn([m EXCEPT !.ctx.fp = 0],
                HTTPRes(200, <<>>, readerFromStaticFile(m.ctx.fp, size), FALSE))

\* serveStaticFile after `await fs.open(path, "r")`
fileOpened(m, ok) ==
    IF ok THEN [m EXCEPT !.files = Append(m.files, 0), !.ctx.fp = Len(m.files) + 1,
                         !.pc = "stat"]
    ELSE serveReturn(m, respError(400, mNotFound))

\* serveStaticFile after `await fp.stat()`
fileStat(m, st) ==
    CASE st.kind = "fail" -> serveReturn(m, respError(400, mNotFound))
      [] st.kind = "dir"  -> serveReturn(m, respError(404, mNotAFile))
      [] st.kind = "file" -> serveFile(m, st.size)

\* fp.close() of the handle at h
closeFile(m, h) == [m EXCEPT !.files[h] = @ + 1]

\* serveStaticFile after the `await fp?.close()` of its finally
fileClosed(m) == writeHTTPResp(closeFile(m, m.ctx.fp), m.res, "serve")

\* serverClient after the `await res.body.close?.()` of its finally
bodyClosed(m) == afterRelease(closeFile(m, RespBody(m).fp), m.ctx.pending)

\* serverClient from a parsed request
serve(m, req) == Respond(m, req, readerFromReq(req))

\* history: cutMessage found a header block ending at idx + 4 and parses it
NoteCut(m, idx) ==
    IF idx < 0 THEN m
    ELSE [m EXCEPT !.hist.cuts = Append(@,
            [block    |-> Subarray(m.buf.data, 0, idx + 4),
             respDone |-> m.hist.respDone,
             bodyEnd  |-> m.reqBody.kind = "none" \/ AtEnd(m.reqBody)])]

\* serverClient from what cutMessage returned
AfterCut(m, cut) ==
    CASE cut.tag = "null"  -> soRead(m, "hdrRead")
      [] cut.tag = "throw" -> newConnCatch(m, cut.err)
      [] cut.tag = "ok"    -> serve([m EXCEPT !.buf = cut.buf], cut.val)

\* serverClient from the top of its loop
serverClient(m) ==
    AfterCut(NoteCut(m, IndexOf(Unread(m.buf), <<CR, LF, CR, LF>>)), cutMessage(m.buf))

\* serverClient after bufPush(buf, data)
AfterPush(m, data) ==
    IF Len(data) = 0 /\ m.buf.length = 0 THEN Destroy(m)
    ELSE IF Len(data) = 0 THEN newConnCatch(m, HTTPError(400, mEOF))
    ELSE [m EXCEPT !.pc = "loop"]

\* serverClient resumed by the chunk soRead returned
serverClientRead(m, data) ==
    IF bufPushThrows(m.buf) THEN newConnCatch(m, PlainError("RangeError"))
    ELSE AfterPush([m EXCEPT !.buf = bufPush(m.buf, data)], data)

----------------------------------------------------------------------------
(* The connections the model is run on *)

\* the longest body of a request with Content-Length
MaxBody == 3

sPOST == <<"P", "O", "S", "T">>
sHTTP11 == <<"H", "T", "T", "P", "/", "1", ".", "1">>
sHTTP10 == <<"H", "T", "T", "P", "/", "1", ".", "0">>
sV11 == <<"1", ".", "1">>
sRoot == <<"/">>
sOther == <<"/", "x">>
fHost == <<"H", "o", "s", "t", ":", SP, "x">>
fLowerLength == <<"c", "o", "n", "t", "e", "n", "t", "-", "l", "e", "n", "g", "t", "h", ":", SP>>
sBadLine == <<"B", "A", "D", "L", "I", "N", "E">>
BodyBytes == <<"a", "b", "c", "d", "e", "f", "g", "h">>

\* a request as the peer sends it: the header block and the body, with the
\* HTTPReq the peer means by it
Request(method, target, version, fields, body) ==
    [head |-> method \o <<SP>> \o target \o <<SP>> \o version \o CRLF
              \o Concat([i \in 1..Len(fields) |-> fields[i] \o CRLF]) \o CRLF,
     body |-> body,
     req  |-> [method |-> method, uri |-> target, version |-> version, headers |-> fields]]

Get11      == Request(sGET, sRoot, sHTTP11, <<fHost>>, <<>>)
GetToken10 == Request(sGET, sRoot, sV10, <<fHost>>, <<>>)
GetToken11 == Request(sGET, sRoot, sV11, <<fHost>>, <<>>)
GetWire10  == Request(sGET, sRoot, sHTTP10, <<>>, <<>>)
Echo(n)    == Request(sPOST, sEcho, sHTTP11,
                      <<kContentLengthField \o NumToString(n, 10)>>, SubSeq(BodyBytes, 1, n))
Post(n)    == Request(sPOST, sOther, sHTTP11,
                      <<fLowerLength \o NumToString(n, 10)>>, SubSeq(BodyBytes, 1, n))
PostToken10(n) == Request(sPOST, sOther, sV10,
                      <<kContentLengthField \o NumToString(n, 10)>>, SubSeq(BodyBytes, 1, n))
BadLine    == [head |-> sBadLine \o CRLF \o CRLF, body |-> <<>>, req |-> NoMsg]
BadField   == Request(sGET, sRoot, sHTTP11, <<<<":", "x">>>>, <<>>)
NoLength   == Request(sPOST, sRoot, sHTTP11, <<>>, <<>>)
\* a chunked body of one chunk (none for <<>>) and the terminal chunk
ChunkedBody(data) ==
    (IF data = <<>> THEN <<>> ELSE NumToString(Len(data), 16) \o CRLF \o data \o CRLF)
    \o <<"0">> \o CRLF \o CRLF
EchoChunked(n) == Request(sPOST, sEcho, sHTTP11, <<kChunkedField>>,
                          ChunkedBody(SubSeq(BodyBytes, 1, n)))
\* kMaxHeaderLen bytes with no CRLF CRLF among them
TooLarge   == [head |-> [i \in 1..kMaxHeaderLen |-> "a"], body |-> <<>>, req |-> NoMsg]

FirstRequests ==
    {Get11, GetToken10, GetToken11, GetWire10, BadLine, BadField, NoLength, EchoChunked(0),
     Post(MaxBody), PostToken10(MaxBody)}
    \cup {Echo(n) : n \in 0..MaxBody}
NextRequests == {Get11, BadLine}

\* one request, or two on one connection; a chunked body with data and the
\* oversized header only alone
Scenarios ==
    {<<a>> : a \in FirstRequests \cup {EchoChunked(2), TooLarge}}
    \cup {<<a, b>> : a \in FirstRequests, b \in NextRequests}

\* the bytes of a scenario in the order the peer sends them
WireOf(scn) == Concat([i \in 1..Len(scn) |-> scn[i].head \o scn[i].body])

\* the sizes of the chunk a 'data' event may carry when w is still to come:
\* any size, but for a stream of the order of kMaxHeaderLen only a few
Segments(w) ==
    IF 2 * Len(w) < kMaxHeaderLen THEN 1..Len(w)
    ELSE {n \in {kMaxHeaderLen - 2, kMaxHeaderLen - 1, Len(w)} : n <= Len(w)}

----------------------------------------------------------------------------
(* The state machine of one connection *)

\* a socket accepted without pauseOnConnect
soInitFlowing ==
    [err |-> FALSE, ended |-> FALSE, reader |-> FALSE, paused |-> FALSE, destroyed |-> FALSE]

\* soInit(socket), the socket paused by pauseOnConnect
soInit ==
    [err |-> FALSE, ended |-> FALSE, reader |-> FALSE, paused |-> TRUE, destroyed |-> FALSE]

HistInit(scn) ==
    [scn |-> scn, cuts |-> <<>>, respDone |-> 0, sent |-> 0, drained |-> 0, got |-> <<>>,
     rx |-> 0, truncated |-> FALSE]

\* the coroutine's variables as one record, and back
M == [buf |-> buf, conn |-> conn, pc |-> pc, ctx |-> ctx, msg |-> msg,
      reqBody |-> reqBody, res |-> res, out |-> out, thrown |-> thrown, files |-> files,
      hist |-> hist]

Install(m) ==
    /\ buf' = m.buf
    /\ conn' = m.conn
    /\ pc' = m.pc
    /\ ctx' = m.ctx
    /\ msg' = m.msg
    /\ reqBody' = m.reqBody
    /\ res' = m.res
    /\ out' = m.out
    /\ thrown' = m.thrown
    /\ files' = m.files
    /\ hist' = m.hist

\* newConn: soInit, and serverClient with its empty buffer about to start
Init ==
    /\ \E scn \in Scenarios : wire = WireOf(scn) /\ hist = HistInit(scn)
    /\ buf = EmptyBuf
    /\ ref = <<>>
    /\ conn = soInit
    /\ rd = Nothing
    /\ pc = "loop"
    /\ ctx = NoCtx
    /\ msg = NoMsg
    /\ reqBody = NoReader
    /\ res = NoRes
    /\ out = <<>>
    /\ thrown = NoError
    /\ files = <<>>

\* serverClient: cutMessage, and on a request the handler and the header write
ServerClientLoop ==
    /\ pc = "loop"
    /\ Install(serverClient(M))
    /\ UNCHANGED <<wire, rd, ref>>

\* serverClient after `await soRead(conn)`
ServerClientRead ==
    /\ pc = "hdrRead"
    /\ rd.tag \in {"ok", "throw"}
    /\ Install(IF rd.tag = "ok" THEN serverClientRead(M, rd.val)
               ELSE newConnCatch(M, rd.err))
    /\ rd' = Nothing
    /\ UNCHANGED <<wire, ref>>

\* writeHTTPResp: `await resp.body.read()` and the write of the chunk
WriteLoop ==
    /\ pc = "bodyLoop"
    /\ Install(deliver(M, ReaderRead(TheReader(M), buf)))
    /\ UNCHANGED <<wire, rd, ref>>

\* serverClient: `while ((await reqBody.read()).length > 0)`
Drain ==
    /\ pc = "drain"
    /\ Install(deliver(M, ReaderRead(TheReader(M), buf)))
    /\ UNCHANGED <<wire, rd, ref>>

\* a body reader after its `await soRead(conn)`
BodyRead ==
    /\ pc = "bodyRead"
    /\ rd.tag \in {"ok", "throw"}
    /\ Install(deliver(M, IF rd.tag = "ok" THEN ReaderResume(TheReader(M), buf, rd.val)
                          ELSE rd))
    /\ rd' = Nothing
    /\ UNCHANGED <<wire, ref>>

\* the callback of socket.write is called without an error: soWrite's promise
\* resolves. A socket that has emitted 'error' is destroyed, and the
\* callbacks of its pending writes are called with an error.
SocketWritten ==
    /\ pc \in {"hdrWrite", "bodyWrite"}
    /\ ~conn.err
    /\ Install(IF pc = "bodyWrite" /\ ctx.last THEN respReturned(M)
               ELSE [M EXCEPT !.pc = "bodyLoop"])
    /\ UNCHANGED <<wire, rd, ref>>

\* socket.on("data"): the flowing socket delivers the next n bytes. The socket
\* emits it whenever it is not paused; that a read is pending then is what
\* the handler asserts, not what enables it.
SocketData ==
    /\ ~conn.paused /\ ~conn.ended /\ ~conn.destroyed /\ ~conn.err
    /\ \E n \in Segments(wire) :
          /\ rd' = Ok(SubSeq(wire, 1, n))
          /\ wire' = SubSeq(wire, n + 1, Len(wire))
          /\ hist' = [hist EXCEPT !.rx = @ + n]
    /\ conn' = [conn EXCEPT !.paused = TRUE, !.reader = FALSE]
    /\ UNCHANGED <<buf, ref, pc, ctx, msg, reqBody, res, out, thrown, files>>

\* socket.on("end"): the peer has closed its side, having sent all or a part
SocketEnd ==
    /\ ~conn.paused /\ ~conn.ended /\ ~conn.destroyed /\ ~conn.err
    /\ conn' = [conn EXCEPT !.ended = TRUE, !.reader = FALSE]
    /\ rd' = IF conn.reader THEN Ok(<<>>) ELSE rd
    /\ wire' = <<>>
    /\ hist' = [hist EXCEPT !.truncated = (wire # <<>>)]
    /\ UNCHANGED <<buf, ref, pc, ctx, msg, reqBody, res, out, thrown, files>>

Next ==
    \/ ServerClientLoop
    \/ ServerClientRead
    \/ WriteLoop
    \/ Drain
    \/ BodyRead
    \/ SocketWritten
    \/ SocketData
    \/ SocketEnd

Spec == Init /\ [][Next]_vars

----------------------------------------------------------------------------
(* DynBuf on its own: any bufPush and bufPop against the reference sequence *)

\* the most operations on the buffer in one run
MaxOps == 5

\* the lengths of the buffers pushed
PushSizes == {0, 1, 5, 33, 40}

\* the n bytes that follow the first `from` of the stream the pushes are cut
\* from; its period divides none of the lengths pushed
StreamBytes(from, n) == [i \in 1..n |-> BodyBytes[((from + i - 1) % 7) + 1]]

\* the lengths popped from a buffer of the given length
PopSizes(length) == {n \in {0, 1, 2, 33, length - 1, length} : 0 <= n /\ n <= length}

\* hist: the last operation, the capacity before it, the bytes pushed so far
\* and the operations so far
InitBuf ==
    /\ buf = EmptyBuf
    /\ ref = <<>>
    /\ hist = [op |-> "none", cap |-> 0, total |-> 0, ops |-> 0]
    /\ conn = soInit
    /\ wire = <<>>
    /\ rd = Nothing
    /\ pc = "buf"
    /\ ctx = NoCtx
    /\ msg = NoMsg
    /\ reqBody = NoReader
    /\ res = NoRes
    /\ out = <<>>
    /\ thrown = NoError
    /\ files = <<>>

\* bufPush(buf, data)
BufPush ==
    /\ pc = "buf"
    /\ hist.ops < MaxOps
    /\ \E n \in PushSizes :
          /\ buf' = bufPush(buf, StreamBytes(hist.total, n))
          /\ ref' = ref \o StreamBytes(hist.total, n)
          /\ hist' = [op |-> "push", cap |-> Len(buf.data), total |-> hist.total + n,
                      ops |-> hist.ops + 1]
    /\ UNCHANGED <<conn, wire, rd, pc, ctx, msg, reqBody, res, out, thrown, files>>

\* bufPop(buf, len) for a len within the data
BufPop ==
    /\ pc = "buf"
    /\ hist.ops < MaxOps
    /\ \E n \in PopSizes(buf.length) :
          /\ buf' = bufPop(buf, n)
          /\ ref' = SubSeq(ref, n + 1, Len(ref))
          /\ hist' = [hist EXCEPT !.op = "pop", !.cap = Len(buf.data), !.ops = @ + 1]
    /\ UNCHANGED <<conn, wire, rd, pc, ctx, msg, reqBody, res, out, thrown, files>>

NextBuf ==
    \/ BufPush
    \/ BufPop

SpecBuf == InitBuf /\ [][NextBuf]_vars

\* C2: after every bufPush and bufPop (len within the data) the bytes
\* [0, length) of the buffer are the reference sequence (a push concatenates
\* at the end, a pop removes the first len bytes); the capacity never
\* decreases, and a capacity that changed is max(old capacity, 32) doubled
\* until the new length fits.
C2_BufferModel ==
    /\ buf.length = Len(ref)
    /\ buf.length <= Len(buf.data)
    /\ \A i \in 1..Len(ref) : buf.data[i] = ref[i]
    /\ Len(buf.data) >= hist.cap
    /\ Len(buf.data) # hist.cap =>
          /\ hist.op = "push"
          /\ hist.cap < buf.length
          /\ \E j \in 0..MaxOps :
                /\ Len(buf.data) = Max(hist.cap, 32) * (2 ^ j)
                /\ Len(buf.data) >= buf.length
                /\ j > 0 => Len(buf.data) \div 2 < buf.length
    /\ (hist.op = "push" /\ hist.cap >= buf.length) => Len(buf.data) = hist.cap

\* the capacity has doubled twice and a pop has left data behind the front
C2_Witness ==
    /\ hist.op = "pop"
    /\ Len(buf.data) > 64
    /\ buf.length > 0
    /\ buf.length < hist.total

----------------------------------------------------------------------------
(* cutMessage on its own: a buffer filled by bufPush, then cut *)

\* well-formed header blocks
CutHeads == {Get11, GetWire10, Echo(MaxBody), Post(0), NoLength}

\* what may follow a header block in the buffer
CutTrailing ==
    {<<>>, <<"a">>, <<CR, LF>>, <<CR, LF, CR, LF>>, <<LF, CR, "a", CR, LF, CR>>,
     BadLine.head, Get11.head}

\* n bytes without CRLF CRLF: all "a", or ending in CR LF CR
Filler(n, tail) == [i \in 1..n |-> IF i > n - Len(tail) THEN tail[i - (n - Len(tail))] ELSE "a"]
CutFillers ==
    {Filler(n, tail) : n \in (kMaxHeaderLen - 2)..(kMaxHeaderLen + 1),
                       tail \in {<<>>, <<CR, LF, CR>>}}

\* a well-formed header block of n bytes: a GET with one long field
LongField(n) == [i \in 1..n |-> IF i = 1 THEN "X" ELSE IF i = 2 THEN ":" ELSE "a"]
LongHead(n) ==
    Request(sGET, sRoot, sHTTP11,
            <<LongField(n - Len(Request(sGET, sRoot, sHTTP11, <<<<>>>>, <<>>).head))>>, <<>>)

\* the inputs: the bytes to fill the buffer with, and the header block and
\* the request meant (none for a filler)
CutInputs ==
    {[bytes |-> h.head \o t, head |-> h.head, req |-> h.req] : h \in CutHeads, t \in CutTrailing}
    \cup {[bytes |-> f, head |-> <<>>, req |-> NoMsg] : f \in CutFillers}
    \cup {[bytes |-> h.head, head |-> h.head, req |-> h.req] :
             h \in {LongHead(kMaxHeaderLen), LongHead(kMaxHeaderLen + 1)}}

\* hist: the input, the buffer before and after the last cutMessage, and the
\* length of the buffer when cutMessage last returned null (-1: never)
InitCut ==
    /\ \E in \in CutInputs :
          /\ wire = in.bytes
          /\ hist = [input |-> in, before |-> EmptyBuf, after |-> EmptyBuf, nullAt |-> -1]
    /\ buf = EmptyBuf
    /\ ref = <<>>
    /\ conn = soInit
    /\ rd = Nothing
    /\ pc = "fill"
    /\ ctx = NoCtx
    /\ msg = NoMsg
    /\ reqBody = NoReader
    /\ res = NoRes
    /\ out = <<>>
    /\ thrown = NoError
    /\ files = <<>>

\* bufPush(buf, data) of the next bytes of the input
CutFill ==
    /\ pc = "fill"
    /\ \E n \in Segments(wire) :
          /\ buf' = bufPush(buf, SubSeq(wire, 1, n))
          /\ wire' = SubSeq(wire, n + 1, Len(wire))
    /\ UNCHANGED <<ref, conn, rd, pc, ctx, msg, reqBody, res, out, thrown, files, hist>>

\* what one call of cutMessage(buf) leaves: its result in rd, the request in
\* msg, the buffer
CutDone(r) ==
    /\ rd' = [tag |-> r.tag]
    /\ msg' = IF r.tag = "ok" THEN r.val ELSE msg
    /\ thrown' = IF r.tag = "throw" THEN r.err ELSE thrown
    /\ buf' = IF r.tag = "ok" THEN r.buf ELSE buf
    /\ pc' = IF r.tag = "null" THEN "fill" ELSE "cut"
    /\ hist' = [hist EXCEPT !.before = buf,
                            !.after = IF r.tag = "ok" THEN r.buf ELSE buf,
                            !.nullAt = IF r.tag = "null" THEN buf.length ELSE @]

\* cutMessage(buf)
CutMessage ==
    /\ pc = "fill"
    /\ CutDone(cutMessage(buf))
    /\ UNCHANGED <<ref, conn, wire, ctx, reqBody, res, out, files>>

NextCut ==
    \/ CutFill
    \/ CutMessage

SpecCut == InitCut /\ [][NextCut]_vars

\* the buffer the last cutMessage was called on held all of the header block
CutHadHead ==
    /\ hist.input.head # <<>>
    /\ hist.before.length >= Len(hist.input.head)
    /\ rd.tag # "null" \/ hist.nullAt = hist.before.length

\* b's unread bytes hold no CR LF CR LF
NoBoundary(b) ==
    \A i \in 1..(b.length - 3) :
        <<b.data[i], b.data[i + 1], b.data[i + 2], b.data[i + 3]>> # <<CR, LF, CR, LF>>

\* C3: called on a buffer that holds one well-formed header block and then
\* any trailing bytes, cutMessage returns the request of that block and
\* leaves exactly the trailing bytes, in order, as the unread contents: it
\* removes k + 4 bytes, k the offset of the first CR LF CR LF.
C3_CutLeavesTrailing ==
    (pc # "fill" \/ hist.nullAt >= 0) /\ CutHadHead =>
        /\ pc = "cut"
        /\ rd.tag = "ok"
        /\ msg = hist.input.req
        /\ IndexOf(hist.input.head, <<CR, LF, CR, LF>>) + 4 = Len(hist.input.head)
        /\ buf.length = hist.before.length - Len(hist.input.head)
        /\ \A i \in 1..buf.length : buf.data[i] = hist.before.data[Len(hist.input.head) + i]
        /\ \A i \in 1..buf.length : buf.data[i] = hist.input.bytes[Len(hist.input.head) + i]

\* a request was cut off a buffer that held another CR LF CR LF after it
C3_Witness ==
    /\ pc = "cut"
    /\ rd.tag = "ok"
    /\ hist.input.head = Echo(MaxBody).head
    /\ buf.length = Len(BadLine.head)
    /\ Unread(buf) = BadLine.head

\* a call of cutMessage has returned, hist.before being the buffer it was
\* called on
CutCalled == pc = "cut" \/ hist.nullAt = hist.before.length

\* C4: called on a buffer whose unread bytes hold no CR LF CR LF, cutMessage
\* throws an HTTPError of code 413 when the buffer holds 8192 bytes or more,
\* and returns null, the buffer as it was, when it holds 8191 or fewer.
C4_HeaderCap ==
    CutCalled /\ NoBoundary(hist.before) =>
        IF hist.before.length >= 8192
        THEN rd.tag = "throw" /\ thrown.http /\ thrown.code = 413
        ELSE rd.tag = "null" /\ pc = "fill" /\ hist.after = hist.before /\ thrown = NoError

\* null at 8191 bytes without a boundary, then the 413 at 8192
C4_Witness ==
    /\ pc = "cut"
    /\ rd.tag = "throw"
    /\ thrown.code = 413
    /\ NoBoundary(hist.before)
    /\ hist.before.length = 8192
    /\ hist.nullAt = 8191

\* C15: cutMessage never returns a request whose header block, through the
\* blank line, is longer than 8192 bytes: the cap holds whether or not the
\* buffer holds a CR LF CR LF, whatever the segmentation.
C15_CapWithBoundary ==
    (pc = "cut" /\ rd.tag = "ok") =>
        hist.before.length - hist.after.length <= kMaxHeaderLen

----------------------------------------------------------------------------
(* The chunked writer and the chunked reader back to back: writeHTTPResp    *)
(* sends a body of unknown length, readChunks decodes what was written      *)

\* the most chunks a producer yields
MaxItems == 3

\* the chunks a producer may yield
ItemChunks == {<<>>, <<"a", "b">>, <<"c", "d", "e">>}

RECURSIVE SeqsUpTo(_, _)
SeqsUpTo(S, n) ==
    IF n = 0 THEN {<<>>}
    ELSE SeqsUpTo(S, n - 1) \cup {Append(q, x) : q \in SeqsUpTo(S, n - 1), x \in S}

\* hist: the chunks the producer yields, the chunks decoded, the responses
\* written
InitChunk ==
    /\ \E items \in SeqsUpTo(ItemChunks, MaxItems) :
          hist = [items |-> items, decoded |-> <<>>, respDone |-> 0, sent |-> 0]
    /\ buf = EmptyBuf
    /\ ref = <<>>
    /\ conn = soInit
    /\ wire = <<>>
    /\ rd = Nothing
    /\ pc = "start"
    /\ ctx = NoCtx
    /\ msg = NoMsg
    /\ reqBody = NoReader
    /\ res = NoRes
    /\ out = <<>>
    /\ thrown = NoError
    /\ files = <<>>

\* writeHTTPResp(conn, resp) for a body read from a generator
ChunkStart ==
    /\ pc = "start"
    /\ Install(writeHTTPResp(M,
           HTTPRes(200, <<kServerHeader>>, readerFromGenerator(Producer(hist.items)), FALSE),
           "serve"))
    /\ UNCHANGED <<wire, rd, ref>>

\* the body as written goes into the buffer of a readChunks not yet started
ChunkFeed ==
    /\ pc = "drain"
    /\ buf' = bufPush(buf, Concat(Tail(out)))
    /\ reqBody' = readerFromGenerator(readChunksStart)
    /\ pc' = "decode"
    /\ UNCHANGED <<ref, conn, wire, rd, ctx, msg, res, out, thrown, files, hist>>

\* what a read() of the decoding reader leaves
Decoded(o) ==
    /\ pc' = CASE o.tag = "data" -> IF Len(o.data) > 0 THEN "decode" ELSE "decoded"
               [] o.tag = "await" -> "starved"
               [] o.tag = "spin" -> "spin"
               [] o.tag = "throw" -> "failed"
    /\ hist' = IF o.tag = "data" /\ Len(o.data) > 0
               THEN [hist EXCEPT !.decoded = Append(@, o.data)]
               ELSE hist
    /\ thrown' = IF o.tag = "throw" THEN o.err ELSE thrown
    /\ buf' = IF o.tag = "throw" THEN buf ELSE o.buf
    /\ reqBody' = IF o.tag = "throw" THEN reqBody ELSE o.reader

\* one read() of the decoding reader
ChunkDecode ==
    /\ pc = "decode"
    /\ Decoded(ReaderRead(reqBody, buf))
    /\ UNCHANGED <<ref, conn, wire, rd, ctx, msg, res, out, files>>

NextChunk ==
    \/ ChunkStart
    \/ WriteLoop
    \/ SocketWritten
    \/ ChunkFeed
    \/ ChunkDecode

SpecChunk == InitChunk /\ [][NextChunk]_vars

\* the chunks of a sequence that are not empty, in order
RECURSIVE NonEmpty(_)
NonEmpty(items) ==
    IF items = <<>> THEN <<>>
    ELSE IF Head(items) = <<>> THEN NonEmpty(Tail(items))
    ELSE <<Head(items)>> \o NonEmpty(Tail(items))

\* C5: the chunks of a producer, an empty one before the end among them,
\* written by writeHTTPResp with the chunked encoding and decoded by
\* readChunks, come out as the non-empty chunks in order and then the end of
\* the body: an empty chunk before the producer's end does not end the body.
C5_ChunkedRoundTrip ==
    /\ pc \notin {"starved", "spin", "failed"}
    /\ pc = "decoded" => hist.decoded = NonEmpty(hist.items)

\* the same for the producers that yield no empty chunk
C5_RoundTripNoEmpty ==
    (\A i \in 1..Len(hist.items) : hist.items[i] # <<>>) => C5_ChunkedRoundTrip

\* the body ["ab", "", "cde"] decoded to its end
C5_Decoded ==
    /\ pc = "decoded"
    /\ hist.items = << <<"a", "b">>, <<>>, <<"c", "d", "e">> >>

----------------------------------------------------------------------------
(* readerFromConnLength on its own: read to the end by the loop of          *)
(* serverClient, over a stream that is shorter or longer than declared      *)

\* the bytes a stream holds beyond the longest declared length
MaxExtra == 2

\* hist.scn: one request without a header block, whose body is the stream;
\* hist.pre: the bytes of it the buffer holds at the start
InitLen ==
    /\ \E n \in 0..MaxBody, len \in 0..(MaxBody + MaxExtra) :
          \E pre \in 0..len :
             /\ reqBody = readerFromConnLength(n)
             /\ buf = bufPush(EmptyBuf, SubSeq(BodyBytes, 1, pre))
             /\ wire = SubSeq(BodyBytes, pre + 1, len)
             /\ hist = [scn |-> <<[head |-> <<>>, body |-> SubSeq(BodyBytes, 1, len),
                                   req |-> NoMsg]>>,
                        pre |-> pre, cuts |-> <<>>, respDone |-> 1, sent |-> 1, drained |-> 0,
                        got |-> <<>>, rx |-> 0, truncated |-> FALSE]
    /\ ref = <<>>
    /\ conn = soInit
    /\ rd = Nothing
    /\ pc = "drain"
    /\ ctx = [NoCtx EXCEPT !.who = "serve", !.caller = "drain", !.last = TRUE]
    /\ msg = NoMsg
    /\ res = NoRes
    /\ out = <<>>
    /\ thrown = NoError
    /\ files = <<>>

NextLen ==
    \/ Drain
    \/ BodyRead
    \/ SocketData
    \/ SocketEnd

SpecLen == InitLen /\ [][NextLen]_vars

\* the bytes the transport has delivered so far, the buffered ones included
LenDelivered == SubSeq(hist.scn[1].body, 1, hist.pre + hist.rx)

\* C6: a reader of readerFromConnLength for N declared bytes, over any
\* segmentation of the stream and any bytes already buffered, yields at most
\* N bytes in all, the first of the stream, and leaves what follows in the
\* buffer; it returns an empty chunk only once N bytes are yielded; it fails
\* with "Unexpected EOF" when the stream ends before N bytes were delivered.
C6_LengthBounded ==
    /\ Len(Concat(hist.got)) <= reqBody.length
    /\ Concat(hist.got) = SubSeq(LenDelivered, 1, Len(Concat(hist.got)))
    /\ buf.length >= 0
    /\ Concat(hist.got) \o Unread(buf) \o (IF rd.tag = "ok" THEN rd.val ELSE <<>>)
         = LenDelivered
    /\ hist.drained > 0 => Len(Concat(hist.got)) = reqBody.length
    /\ (conn.ended /\ Len(LenDelivered) < reqBody.length) =>
          \/ pc = "bodyRead" /\ rd = Ok(<<>>)
          \/ /\ pc = "closed"
             /\ thrown = PlainError("Unexpected EOF from HTTP body")
             /\ hist.drained = 0
    /\ pc = "closed" => conn.ended /\ Len(LenDelivered) < reqBody.length

\* N bytes were yielded in more than one read, the end was returned, and
\* bytes beyond N are left in the buffer
C6_Witness ==
    /\ hist.drained = 1
    /\ reqBody.length = MaxBody
    /\ Len(hist.got) > 1
    /\ buf.length > 0
    /\ hist.pre > 0

----------------------------------------------------------------------------
(* What the peer reads off the socket *)

\* a buffer written is the header of a response
IsHead(b) == Len(b) >= Len(kHTTP11) /\ SubSeq(b, 1, Len(kHTTP11)) = kHTTP11

\* the places in out of the response headers
HeadsAt(o) == {i \in 1..Len(o) : IsHead(o[i])}

\* the header of the k-th response written, and the body bytes after it
WrittenHead(k) == out[Nth(HeadsAt(out), k)]
WrittenBody(k) ==
    Concat(SubSeq(out, Nth(HeadsAt(out), k) + 1,
                  IF k < Cardinality(HeadsAt(out)) THEN Nth(HeadsAt(out), k + 1) - 1
                  ELSE Len(out)))

\* the status code of a response header, and the length it declares (-1:
\* none)
StatusOf(h) == ParseInt(SubSeq(h, Len(kHTTP11) + 1, Len(kHTTP11) + 3), 10).val
DeclaredLength(h) ==
    IF fieldGet(splitLines(h), kContentLength).tag = "ok"
    THEN ParseInt(fieldGet(splitLines(h), kContentLength).val, 10).val
    ELSE -1

\* the responses begun are all complete, and serverClient has not failed
Exchanged ==
    /\ hist.respDone >= 1
    /\ Cardinality(HeadsAt(out)) = hist.respDone
    /\ thrown = NoError

----------------------------------------------------------------------------
(* Properties of a connection (Spec) *)

\* C1: the header parser takes no byte of request k+1 before the response to
\* request k is written to its end and the body reader of request k has
\* returned its end, and request k+1 is parsed from the first byte after the
\* body of request k: the k-th header block parsed is the header block of
\* the k-th request sent.
C1_OneExchangeAtATime ==
    Len(hist.scn) > 1 =>
        /\ Len(hist.cuts) <= Len(hist.scn)
        /\ \A k \in 1..Len(hist.cuts) :
              /\ k <= Len(hist.scn) => hist.cuts[k].block = hist.scn[k].head
              /\ hist.cuts[k].respDone = k - 1
              /\ hist.cuts[k].bodyEnd

\* the same for the connections without a chunked request body
C1_WithDeclaredLength ==
    (\A k \in 1..Len(hist.scn) :
        fieldGet(hist.scn[k].req.headers, kTransferEncoding).tag # "ok")
    => C1_OneExchangeAtATime

\* C7: once the response to a request of version "1.0" is written the
\* connection is closed, the request body not read and nothing more of the
\* buffer parsed; after the response to a request of another version ("1.1")
\* serverClient reads the request body to its end and then goes back to
\* cutMessage on the same connection.
C7_VersionGate ==
    /\ (hist.respDone >= 1 /\ msg.version = sV10) =>
          /\ pc = "closed" /\ conn.destroyed
          /\ hist.drained = 0 /\ hist.got = <<>>
          /\ Len(hist.cuts) = 1
          /\ reqBody = readerFromConnLength(reqBody.length)
          /\ Unread(buf) = SubSeq(WireOf(hist.scn), Len(hist.scn[1].head) + 1, hist.rx)
    /\ (Exchanged /\ msg.version # sV10) =>
          /\ \/ pc \in {"drain", "bodyRead", "loop", "hdrRead"}
             \/ pc = "closed" /\ conn.ended /\ hist.drained = hist.respDone
          /\ pc \in {"loop", "hdrRead", "closed"} =>
                hist.drained = hist.respDone /\ AtEnd(reqBody)
    /\ \A k \in 2..Len(hist.cuts) : hist.cuts[k].bodyEnd /\ hist.cuts[k].respDone = k - 1

\* closed after the response to a "1.0" request with a body and a second
\* request behind it, all received
C7_Witness ==
    /\ hist.respDone = 1
    /\ msg = PostToken10(MaxBody).req
    /\ pc = "closed"
    /\ Len(hist.scn) = 2
    /\ hist.rx = Len(WireOf(hist.scn))

\* the request after a "1.1" request with a body that was drained is parsed
C7_NextFramed ==
    /\ hist.scn[1] = Post(MaxBody)
    /\ Len(hist.cuts) = 2
    /\ Len(hist.got) > 1
    /\ msg = Get11.req

\* C8: an HTTPError thrown while a request is awaited or handled (a request
\* line that is not three non-empty tokens, a header line without ':' after
\* its first byte, kMaxHeaderLen bytes without the end of a header, the end
\* of the stream in a header, no reader for the body) gets one response with
\* its code written, the only one after those of the requests served; then
\* the connection is closed, and nothing more of it is parsed.
C8_ErrorResponse ==
    /\ thrown.http =>
          /\ ctx.who = "error"
          /\ thrown.code \in {400, 413}
          /\ Cardinality(HeadsAt(out)) = hist.respDone + 1
          /\ StatusOf(WrittenHead(hist.respDone + 1)) = thrown.code
          /\ pc \in {"hdrWrite", "bodyLoop", "bodyWrite", "closed"}
          /\ WrittenBody(hist.respDone + 1) \in {<<>>, thrown.message \o <<LF>>}
          /\ pc \in {"bodyWrite", "closed"} =>
                WrittenBody(hist.respDone + 1) = thrown.message \o <<LF>>
          /\ pc = "closed" => conn.destroyed
          /\ Len(hist.cuts) <= hist.respDone + 1
    /\ \A k \in 1..Len(hist.cuts) :
          /\ hist.cuts[k].block = BadLine.head => thrown = HTTPError(400, mBadLine)
          /\ hist.cuts[k].block = BadField.head => thrown = HTTPError(400, mBadField)
          /\ hist.cuts[k].block = NoLength.head => thrown = HTTPError(400, mNoLen)
    /\ (hist.scn = <<TooLarge>> /\ buf.length >= 8192 /\ pc # "loop") =>
          thrown = HTTPError(413, mTooLarge)
    /\ (pc = "closed" /\ thrown = NoError /\ msg.version # sV10) =>
          conn.ended /\ buf.length = 0
    /\ (thrown = HTTPError(400, mEOF)) => conn.ended /\ buf.length # 0

\* the connection is closed after the response to a first request and the
\* one 400 to the malformed request line behind it
C8_Witness ==
    /\ pc = "closed"
    /\ thrown = HTTPError(400, mBadLine)
    /\ hist.respDone = 1
    /\ Len(out) = 4
    /\ StatusOf(out[3]) = 400
    /\ conn.destroyed

\* C9: to POST /echo HTTP/1.1 with Content-Length: N and N body bytes, in
\* any segmentation, the response written has the status 200, declares
\* Content-Length N, and its body is the request body, byte for byte.
C9_Echo ==
    \A n \in 0..MaxBody :
        (hist.scn[1] = Echo(n) /\ hist.respDone >= 1) =>
            /\ StatusOf(WrittenHead(1)) = 200
            /\ DeclaredLength(WrittenHead(1)) = n
            /\ Len(WrittenBody(1)) = n
            /\ WrittenBody(1) = SubSeq(BodyBytes, 1, n)
            /\ WrittenBody(1) = hist.scn[1].body

\* the echo of a body of MaxBody bytes, written in more than one piece
C9_Witness ==
    /\ hist.scn[1] = Echo(MaxBody)
    /\ hist.respDone = 1
    /\ Len(out) > 2
    /\ Cardinality(HeadsAt(out)) = 1

\* C10: to GET / HTTP/1.1 with header fields and no body the response has
\* the status 200 and a Content-Length equal to the number of body bytes
\* written, those of the fixed body; after it serverClient is back at
\* cutMessage or its soRead, on the same connection, which is open.
C10_GetRoot ==
    (Exchanged /\ msg = Get11.req) =>
        /\ StatusOf(WrittenHead(hist.respDone)) = 200
        /\ DeclaredLength(WrittenHead(hist.respDone)) = Len(WrittenBody(hist.respDone))
        /\ WrittenBody(hist.respDone) = kHello
        /\ Len(WrittenBody(hist.respDone)) = 13
        /\ \/ pc = "drain" /\ ReaderRead(reqBody, buf) = Yield(<<>>, reqBody, buf)
           \/ pc \in {"loop", "hdrRead"}
           \/ pc = "closed" /\ conn.ended
        /\ pc # "closed" => ~conn.destroyed

\* the response to GET / is written and serverClient waits, in soRead, for a
\* next request on the open connection
C10_Witness ==
    /\ Exchanged
    /\ msg = Get11.req
    /\ hist.scn = <<Get11>>
    /\ pc = "hdrRead"
    /\ conn.reader
    /\ ~conn.ended /\ ~conn.destroyed

----------------------------------------------------------------------------
(* Properties of the buffer's length, the chunked decoder and the version test *)

\* C12: in every reachable state the receive buffer's length is at least 0
\* and at most the capacity of its backing store (every consume(n) of the
\* header extractor, the length-bounded reader and the chunked decoder takes
\* n <= length), whatever the segmentation of the stream.
C12_LengthInvariant == buf.length >= 0 /\ buf.length <= Len(buf.data)

\* C13: the chunked decoder never loops without reading: when the CRLF that
\* ends the chunk-size line is not buffered it reads from the connection.
C13_NoBusyLoop == pc # "spin"

\* C14: a request whose version is the wire form HTTP/1.0 is not kept alive:
\* once its response is written the connection is closed, and no later
\* request is parsed.
C14_WireVersionCloses ==
    (msg.version = sHTTP10 /\ hist.respDone >= 1) =>
        (conn.destroyed /\ Len(hist.cuts) = 1)

----------------------------------------------------------------------------
(* Properties of the socket wrapper *)

\* the socket would emit a 'data' event now
Flowing == ~conn.paused /\ ~conn.ended /\ ~conn.destroyed /\ ~conn.err

\* C16: the socket delivers data only while a read is pending: it is paused
\* from the start and after every 'data' event and flows only from a read();
\* a chunk is delivered only to a pending read whose value nobody holds yet,
\* so none is dropped or overwritten (console.assert(conn.reader) holds).
C16_DataOnlyWhileReading ==
    /\ Flowing => (conn.reader /\ rd = Nothing /\ pc \in {"hdrRead", "bodyRead"})
    /\ conn.reader => ~conn.paused
    /\ rd # Nothing => (~conn.reader /\ pc \in {"hdrRead", "bodyRead"})
    /\ pc \notin {"hdrRead", "bodyRead"} => (conn.paused \/ conn.ended \/ conn.err)

\* a second read was resolved by a second chunk
C16_Witness ==
    /\ rd # Nothing /\ rd.val # <<>>
    /\ conn.paused
    /\ hist.rx > Len(rd.val)

----------------------------------------------------------------------------
(* readerFromReq on its own: one request, its body reader selected *)

sPUT == <<"P", "U", "T">>
sGzip == <<"g", "z", "i", "p">>

\* a decimal numeral of n, with its sign when n is negative
Numeral(n) == IF n < 0 THEN <<"-">> \o NumToString(0 - n, 10) ELSE NumToString(n, 10)

\* a Content-Length value that is no number
sNotNumber == <<"x">>

\* the header fields of a request whose Content-Length field has the value
\* val (no such field when hasLen is not set) and that announces the transfer
\* coding te (none for <<>>), the field names as they are or in lower case
SelFields(hasLen, val, te, lower) ==
    (IF hasLen
     THEN <<(IF lower THEN ToLower(kContentLength) ELSE kContentLength)
            \o <<":", SP>> \o val>>
     ELSE <<>>)
    \o <<fHost>>
    \o (IF te # <<>>
        THEN <<(IF lower THEN ToLower(kTransferEncoding) ELSE kTransferEncoding)
               \o <<":", SP>> \o te>>
        ELSE <<>>)

SelMethods == {sGET, sHEAD, sPOST, sPUT}
SelLengths == (-1)..MaxBody
SelCodings == {<<>>, kChunked, sGzip}

\* hist: what the request announces; numeric tells a Content-Length value
\* that is a decimal numeral (of len) from one that is no number
InitSel ==
    /\ \E method \in SelMethods, hasLen \in BOOLEAN, len \in SelLengths,
          numeric \in BOOLEAN, te \in SelCodings, lower \in BOOLEAN :
          /\ hasLen \/ (len = 0 /\ numeric)
          /\ numeric \/ len = 0
          /\ msg = [method |-> method, uri |-> sOther, version |-> sHTTP11,
                    headers |-> SelFields(hasLen,
                                          IF numeric THEN Numeral(len) ELSE sNotNumber,
                                          te, lower)]
          /\ hist = [method |-> method, hasLen |-> hasLen, numeric |-> numeric,
                     len |-> len, chunked |-> (te = kChunked)]
    /\ buf = EmptyBuf
    /\ ref = <<>>
    /\ conn = soInit
    /\ wire = <<>>
    /\ rd = Nothing
    /\ pc = "select"
    /\ ctx = NoCtx
    /\ reqBody = NoReader
    /\ res = NoRes
    /\ out = <<>>
    /\ thrown = NoError
    /\ files = <<>>

\* serverClient: `const reqBody = readerFromReq(conn, buf, msg)`
SelectBody ==
    /\ pc = "select"
    /\ rd' = readerFromReq(msg)
    /\ pc' = "selected"
    /\ UNCHANGED <<buf, ref, conn, wire, ctx, msg, reqBody, res, out, thrown, files, hist>>

NextSel == SelectBody

SpecSel == InitSel /\ [][NextSel]_vars

SelFails == rd.tag = "throw" /\ rd.err.http /\ rd.err.code = 400
SelLength(n) ==
    rd.tag = "ok" /\ rd.val.kind = "len" /\ rd.val.length = n /\ rd.val.remain = n
SelChunked ==
    /\ rd.tag = "ok" /\ rd.val.kind = "gen" /\ rd.val.length = -1
    /\ rd.val.gen = readChunksStart

SelRule ==
    IF hist.method \in {sGET, sHEAD}
    THEN IF (hist.hasLen /\ hist.numeric /\ hist.len > 0) \/ hist.chunked THEN SelFails
         ELSE SelLength(0)
    ELSE IF hist.hasLen /\ hist.numeric /\ hist.len >= 0 THEN SelLength(hist.len)
    ELSE IF hist.chunked THEN SelChunked
    ELSE SelFails

\* the rule without a case for a Content-Length value that is no number: its
\* "otherwise" cases then give GET a reader of length 0 and a chunked POST the
\* chunked reader
C20_RuleForEveryValue == pc = "selected" => SelRule

\* C20: the body reader of a request follows from its method and its
\* Content-Length and Transfer-Encoding fields. A Content-Length value that
\* is no number fails with 400, whatever the method. Otherwise: GET or HEAD
\* with a positive Content-Length or with chunked fails with 400, and
\* otherwise gets a length-bounded reader of length 0; another method with a
\* non-negative Content-Length gets a length-bounded reader of that length,
\* chunked or not; otherwise chunked gets the chunked reader of unknown
\* length; otherwise the selection fails with 400.
C20_ReaderSelection ==
    pc = "selected" =>
        IF hist.hasLen /\ ~hist.numeric THEN SelFails ELSE SelRule

\* a POST with both fields got the length-bounded reader
C20_Witness ==
    /\ pc = "selected"
    /\ hist.method = sPOST /\ hist.hasLen /\ hist.len = MaxBody /\ hist.chunked
    /\ SelLength(MaxBody)

----------------------------------------------------------------------------
(* One connection with the file system and a transport that may fail: the  *)
(* /files/ handler, 'error' events and failing writes                      *)

\* the largest size of a file, and the most bytes one fp.read() reads
MaxFile == 2

sFileX == sFiles \o <<"x">>
GetFile     == Request(sGET, sFileX, sHTTP11, <<fHost>>, <<>>)
PostFile(n) == Request(sPOST, sFileX, sHTTP11,
                       <<kContentLengthField \o NumToString(n, 10)>>, SubSeq(BodyBytes, 1, n))

IOScenarios ==
    {<<GetFile>>, <<GetFile, Get11>>, <<PostFile(1)>>, <<Get11>>, <<GetToken10>>,
     <<Echo(MaxBody - 1)>>, <<EchoChunked(1)>>, <<BadLine>>}

InitIO ==
    /\ \E scn \in IOScenarios : wire = WireOf(scn) /\ hist = HistInit(scn)
    /\ buf = EmptyBuf
    /\ ref = <<>>
    /\ conn = soInit
    /\ rd = Nothing
    /\ pc = "loop"
    /\ ctx = NoCtx
    /\ msg = NoMsg
    /\ reqBody = NoReader
    /\ res = NoRes
    /\ out = <<>>
    /\ thrown = NoError
    /\ files = <<>>

\* what fp.stat() may settle with
StatResults ==
    {[kind |-> "fail", size |-> 0], [kind |-> "dir", size |-> 0]}
    \cup {[kind |-> "file", size |-> n] : n \in 0..MaxFile}

\* `await fs.open(path, "r")` settles: the handle, or a failure
FsOpen ==
    /\ pc = "open"
    /\ \E ok \in BOOLEAN : Install(fileOpened(M, ok))
    /\ UNCHANGED <<wire, rd, ref>>

\* `await fp.stat()` settles
FsStat ==
    /\ pc = "stat"
    /\ \E st \in StatResults : Install(fileStat(M, st))
    /\ UNCHANGED <<wire, rd, ref>>

\* `await fp.read()` settles, with as many bytes as the file then gives
FsRead ==
    /\ pc = "fileRead"
    /\ \E n \in 0..MaxFile : Install(deliver(M, FileResume(TheReader(M), buf, n)))
    /\ UNCHANGED <<wire, rd, ref>>

\* `await fp.close()` settles, in serveStaticFile or in serverClient
FsClose ==
    /\ pc \in {"fpClose", "close"}
    /\ Install(IF pc = "fpClose" THEN fileClosed(M) ELSE bodyClosed(M))
    /\ UNCHANGED <<wire, rd, ref>>

\* the places serverClient waits at for the socket or the file system
Suspended ==
    pc \in {"hdrRead", "bodyRead", "hdrWrite", "bodyWrite", "open", "stat", "fpClose",
            "fileRead", "close"}

\* socket.on("error"): conn.err is set and a pending read is rejected
SocketError ==
    /\ Suspended /\ rd = Nothing
    /\ ~conn.err /\ ~conn.destroyed
    /\ conn' = [conn EXCEPT !.err = TRUE, !.reader = FALSE]
    /\ rd' = IF conn.reader THEN Throw(PlainError("socket")) ELSE rd
    /\ UNCHANGED <<buf, ref, wire, pc, ctx, msg, reqBody, res, out, thrown, files, hist>>

\* the callback of socket.write is called with an error: soWrite's promise
\* is rejected
SocketWriteFailed ==
    /\ pc \in {"hdrWrite", "bodyWrite"}
    /\ Install(respThrew(M, PlainError("socket")))
    /\ UNCHANGED <<wire, rd, ref>>

NextIO ==
    \/ ServerClientLoop
    \/ ServerClientRead
    \/ WriteLoop
    \/ Drain
    \/ BodyRead
    \/ SocketWritten
    \/ SocketData
    \/ SocketEnd
    \/ FsOpen
    \/ FsStat
    \/ FsRead
    \/ FsClose
    \/ SocketError
    \/ SocketWriteFailed

SpecIO == InitIO /\ [][NextIO]_vars

----------------------------------------------------------------------------
(* Failures, file handles and framing, on SpecIO *)

\* the places in out of the header of newConn's error response
ErrorHeads == {i \in HeadsAt(out) : ctx.who = "error" /\ out[i] = encodeHTTPResp(res)}

\* newConn writes, or has written, its error response
ErrorResponding == ctx.who = "error"

\* C17: newConn writes an error response only for a failure that has a
\* status code, and only when every response begun before is written and
\* released (no byte of a response is written for the exchange that failed);
\* a failure without a status code ends the connection with no further
\* write; what the write of the error response throws is swallowed; the
\* socket is destroyed whenever newConn is over.
C17_ErrorResponseOnlyWithStatus ==
    /\ ErrorResponding =>
          /\ thrown.http
          /\ Cardinality(HeadsAt(out) \ ErrorHeads) = hist.respDone
          /\ Cardinality(ErrorHeads) <= 1
          /\ \A i \in ErrorHeads : i = Greatest(HeadsAt(out))
          /\ StatusOf(encodeHTTPResp(res)) = thrown.code
    /\ (thrown # NoError /\ ~thrown.http) =>
          (~ErrorResponding /\ pc = "closed" /\ conn.destroyed)
    /\ thrown # NoError =>
          \/ pc = "closed"
          \/ ErrorResponding /\ pc \in {"hdrWrite", "bodyLoop", "bodyWrite"}
    /\ pc = "closed" <=> conn.destroyed

\* the write of the error response to a bad request line failed, and the
\* connection is closed with the 400 still the failure
C17_Witness ==
    /\ pc = "closed" /\ conn.destroyed
    /\ ErrorResponding
    /\ thrown = HTTPError(400, mBadLine)
    /\ Cardinality(HeadsAt(out)) = 1
    /\ hist.sent = 0

\* the handle at h is open
IsOpen(h) == files[h] = 0

\* C18: a file handle opened for a /files/ request is closed exactly once on
\* every path: it is never closed twice, it is open only while its request
\* is served (from the open to the close that follows the write of the
\* response, or to the close in serveStaticFile when the file is not
\* served), and the body is closed only once writeHTTPResp is over, with a
\* failure or with the whole body written.
C18_HandleClosedOnce ==
    /\ \A h \in 1..Len(files) :
          /\ files[h] <= 1
          /\ IsOpen(h) =>
                /\ h = Len(files)
                /\ ~ErrorResponding
                /\ pc \in {"stat", "fpClose", "hdrWrite", "bodyLoop", "bodyWrite",
                           "fileRead", "close"}
    /\ pc = "close" =>
          /\ res.body.kind = "file" /\ IsOpen(res.body.fp)
          /\ ctx.pending = NoError =>
                /\ res.body.got = res.body.length
                /\ Len(WrittenBody(Cardinality(HeadsAt(out)))) = res.body.length
    /\ pc = "fpClose" => (ctx.fp = Len(files) /\ res.body.kind = "mem")

\* the file changed its size while it was written, and its handle is closed
C18_Witness ==
    /\ pc = "closed"
    /\ thrown = PlainError("file size changed, abandon it!")
    /\ files = <<1>>
    /\ Cardinality(HeadsAt(out)) = 1

\* the writes of the k-th response after its header
WrittenChunks(k) ==
    SubSeq(out, Nth(HeadsAt(out), k) + 1,
           IF k < Cardinality(HeadsAt(out)) THEN Nth(HeadsAt(out), k + 1) - 1
           ELSE Len(out))

\* the offsets in a header block of the fields of the given name
FieldsAt(h, name) ==
    {i \in 0..(Len(h) - Len(name) - 3) :
        SubSeq(h, i + 1, i + Len(name) + 3) = CRLF \o name \o <<":">>}

\* the framing fields of a header block
LengthLines(h) == FieldsAt(h, kContentLength)
ChunkedLines(h) == FieldsAt(h, kTransferEncoding)

\* the number a header block gives as its Content-Length
LengthGiven(h) ==
    ParseInt(SubSeq(h, Least(LengthLines(h)) + Len(kContentLength) + 4, Len(h)), 10).val

kLastChunk == <<"0", CR, LF, CR, LF>>

\* the k-th response, written to its end, is framed as its header says
Framed(h, chunks) ==
    /\ Cardinality(LengthLines(h)) + Cardinality(ChunkedLines(h)) = 1
    /\ IF ChunkedLines(h) = {}
       THEN Len(Concat(chunks)) = LengthGiven(h)
       ELSE /\ IndexOf(h, CRLF \o kChunkedField \o CRLF) >= 0
            /\ chunks # <<>>
            /\ chunks[Len(chunks)] = kLastChunk
            /\ \A i \in 1..(Len(chunks) - 1) : chunks[i] # kLastChunk

\* C19: every response writeHTTPResp has sent to its end starts with its
\* header block, which has exactly one framing field: Transfer-Encoding:
\* chunked when the length of the body is unknown and Content-Length: n
\* otherwise; with Content-Length the body bytes written are n in all; with
\* chunked the terminal 0 CRLF CRLF is written once, as the last write.
C19_FramingAgrees ==
    /\ hist.sent <= Cardinality(HeadsAt(out))
    /\ Cardinality(HeadsAt(out)) <= hist.sent + 1
    /\ out # <<>> => IsHead(out[1])
    /\ \A k \in 1..hist.sent : Framed(WrittenHead(k), WrittenChunks(k))
    /\ pc \in {"hdrWrite", "bodyLoop", "bodyWrite", "fileRead"} =>
          /\ WrittenHead(Cardinality(HeadsAt(out))) = encodeHTTPResp(res)
          /\ (RespBody(M).length < 0) <=> (ChunkedLines(encodeHTTPResp(res)) # {})
          /\ RespBody(M).length >= 0 =>
                LengthGiven(encodeHTTPResp(res)) = RespBody(M).length

\* the response to a file of MaxFile bytes was
\* sent whole, the file read in MaxFile reads
C19_Witness ==
    /\ hist.scn = <<GetFile>>
    /\ hist.sent = 1
    /\ LengthGiven(WrittenHead(1)) = MaxFile
    /\ Len(WrittenChunks(1)) = MaxFile
    /\ files = <<1>>

\* a chunked response was sent whole, data and the terminal chunk
C19_ChunkedSent ==
    /\ hist.sent = 1
    /\ ChunkedLines(WrittenHead(1)) # {}
    /\ Len(WrittenChunks(1)) = 2

----------------------------------------------------------------------------
(* Progress after 'end' and 'error' *)

\* serverClient waits for a read on a socket that has failed: the socket
\* emits no further event, and no step of the connection is left to take
ReadNeverCompletes ==
    /\ pc \in {"hdrRead", "bodyRead"}
    /\ conn.reader /\ rd = Nothing
    /\ conn.err
    /\ ~conn.destroyed
    /\ ~ENABLED NextIO

\* C11: once the socket has emitted 'end' or 'error', whatever serverClient
\* was waiting for then (a read, a write, or neither), every read and write
\* pending or issued later completes, so that newConn comes to its end and
\* destroys the socket: serverClient is never left waiting for a read that
\* nothing completes.
C11_NoReadLeftPending == ~ReadNeverCompletes

====
